---- MODULE Spec2Model ----
(***************************************************************************)
(* The chain-reaction core of the Rube-Goldberg machine: RGMController,    *)
(* AnimationSystem and CollisionSystem (src/A4/modules) acting on the      *)
(* object store built by buildRGMObjects, and the animate loops that       *)
(* drive them (src/A4/MainNew.js, src/A4/MainApp.js).                      *)
(*                                                                         *)
(* Numbers are fixed point, in thousandths: the velocity 2 of the source   *)
(* is 2000 here, the angular velocity 1.5 is 1500, a dt of 0.5 s is 500.   *)
(* Products are rounded down to the next thousandth.  Nothing in the       *)
(* scene has a z extent that matters: every centre has z = 0 and no        *)
(* velocity has a z component, so boxes are compared in x and y.           *)
(***************************************************************************)
EXTENDS Integers, Sequences, FiniteSets

VARIABLES
  state,      \* RGMController.state
  ball1,      \* rgm.ball1: position, velocity, active, mesh (the position of
              \*   each of its three meshes)
  ball2,      \* rgm.ball2
  dominos,    \* rgm.dominos: sequence of [angle, angularVelocity, fallen,
              \*   rotation (rotation.z of each of the domino's meshes)]
  pendulum,   \* rgm.pendulum: angle, angularVelocity, length, active,
              \*   pivot (rotation.z of each of the pivot meshes)
  events,     \* collisionSystem.events / the queue handed to the latest update
  lastOp,     \* the operation that produced the current state
  pre,        \* the controller state and object store before that operation
  scen,       \* how far the calls since construction follow the chain scenario
  driver,     \* the script whose animate loop drives the frames
  calls,      \* the component updates animate has run in the current frame
  frame,      \* frames started so far
  delta,      \* clock.getDelta() of the current frame
  prev,       \* collisionSystem.events as the latest collision update found it
  shadingState, \* shadingState.currentMode (currentMode of MainApp.js)
  graphs,     \* graphs[mode].root.visible of the three scene graphs
  presses     \* presses of the shading key so far

vars ==
  <<state, ball1, ball2, dominos, pendulum, events, lastOp, pre, scen,
    driver, calls, frame, delta, prev, shadingState, graphs, presses>>

frameVars == <<driver, calls, frame, delta>>

uiVars == <<shadingState, graphs, presses>>

\* ---------------------------------------------------------------- bounds
NumDominos == 3     \* dominos in the chain (the scene builds a fixed row)
MaxQueue == 2       \* events in one collisionEvents queue
MaxFrames == 6      \* frames of the animate loop

\* ---------------------------------------------------------------- data
Vec(x, y, z) == <<x, y, z>>

RGMState ==
  {"IDLE", "BALL1_ROLLING", "DOMINOS_FALLING", "PENDULUM_SWINGING",
   "BALL2_ROLLING", "DONE"}

\* The event types emitted by the collision systems of the repository.
EventTypes ==
  {"PENDULUM_HIT_BALL1", "BALL1_HIT_RAMP", "BALL1_HIT_FIRST_DOMINO",
   "DOMINO_HIT_NEXT", "DOMINO_HIT_BALL2", "PENDULUM_HIT_BALL2"}

\* _emit(type, payload): payload object references are domino indices
\* (1-based: dominos[i] of the source is index i+1); 0 when the payload
\* holds no domino.
emit(type, from, to) == [type |-> type, from |-> from, to |-> to]

\* Every event a collision system can put in the queue.
Events ==
  {emit("PENDULUM_HIT_BALL1", 0, 0), emit("BALL1_HIT_RAMP", 0, 0),
   emit("BALL1_HIT_FIRST_DOMINO", 0, 1), emit("DOMINO_HIT_BALL2", 0, 0),
   emit("PENDULUM_HIT_BALL2", 0, 0)}
  \cup {emit("DOMINO_HIT_NEXT", i, i + 1) : i \in 1..(NumDominos - 1)}

Queues == UNION {[1..n -> Events] : n \in 0..MaxQueue}

\* The three scene graphs, one per shading variant; every object of the
\* store has one mesh in each.
Modes == {"phong", "gouraud", "blinn"}

\* The same value on the mesh of every graph.
AllMeshes(v) == [m \in Modes |-> v]

\* The object store as buildRGMObjects returns it, with the state the
\* constructor assigns before it calls _reset.
buildRGMObjects ==
  [state |-> "IDLE",
   ball1 |-> [position |-> Vec(-13880, 3000, 0), velocity |-> Vec(0, 0, 0),
              active |-> TRUE, mesh |-> AllMeshes(Vec(-13880, 3000, 0))],
   ball2 |-> [position |-> Vec(3400, 350, 0), velocity |-> Vec(0, 0, 0),
              active |-> FALSE, mesh |-> AllMeshes(Vec(3400, 350, 0))],
   dominos |-> [i \in 1..NumDominos |->
                  [angle |-> 0, angularVelocity |-> 0, fallen |-> FALSE,
                   rotation |-> AllMeshes(0)]],
   pendulum |-> [angle |-> 0, angularVelocity |-> 0, length |-> 3000,
                 active |-> FALSE, pivot |-> AllMeshes(0)]]

\* ---------------------------------------------------------------- RGMController
\* _reset(): the state field is not assigned.
reset(w) ==
  [w EXCEPT
     !.ball1 = [@ EXCEPT !.position = w.ball1.mesh.phong,
                         !.velocity = Vec(0, 0, 0), !.active = FALSE],
     !.ball2 = [@ EXCEPT !.position = w.ball2.mesh.phong,
                         !.velocity = Vec(0, 0, 0), !.active = FALSE],
     !.dominos = [i \in DOMAIN w.dominos |->
                    [w.dominos[i] EXCEPT !.angle = 0, !.angularVelocity = 0,
                                         !.fallen = FALSE]],
     !.pendulum = [@ EXCEPT !.angle = 0, !.angularVelocity = 0,
                            !.active = FALSE]]

\* constructor(rgmObjects): state = IDLE, then _reset().
constructor == reset([buildRGMObjects EXCEPT !.state = "IDLE"])

startBall1(w) ==
  [w EXCEPT !.state = "BALL1_ROLLING",
            !.ball1 = [@ EXCEPT !.active = TRUE, !.velocity = Vec(2000, 0, 0)]]

\* _onBall1HitFirstDomino without this.state = RGMState.DOMINOS_FALLING.
onBall1HitFirstDomino_KeepsState(w, ev) ==
  IF w.state # "BALL1_ROLLING" THEN w
  ELSE [w EXCEPT
          !.ball1 = [@ EXCEPT !.active = FALSE, !.velocity = Vec(0, 0, 0)],
          !.dominos[ev.to] = [@ EXCEPT !.angularVelocity = 1500,
                                       !.fallen = TRUE]]

\* _onBall1HitFirstDomino without its early return on the state.
onBall1HitFirstDomino_NoGuard(w, ev) ==
  [w EXCEPT
     !.ball1 = [@ EXCEPT !.active = FALSE, !.velocity = Vec(0, 0, 0)],
     !.dominos[ev.to] = [@ EXCEPT !.angularVelocity = 1500, !.fallen = TRUE],
     !.state = "DOMINOS_FALLING"]

\* { ball, domino }: ball is ball1, domino is dominos[ev.to].
onBall1HitFirstDomino(w, ev) ==
  IF w.state # "BALL1_ROLLING" THEN w
  ELSE [w EXCEPT
          !.ball1 = [@ EXCEPT !.active = FALSE, !.velocity = Vec(0, 0, 0)],
          !.dominos[ev.to] = [@ EXCEPT !.angularVelocity = 1500,
                                       !.fallen = TRUE],
          !.state = "DOMINOS_FALLING"]

\* _onDominoHitNext adding the push to the target's angular velocity.
onDominoHitNext_Accumulates(w, ev) ==
  IF w.state # "DOMINOS_FALLING" THEN w
  ELSE [w EXCEPT !.dominos[ev.to] = [@ EXCEPT !.angularVelocity = @ + 1500,
                                              !.fallen = TRUE]]

\* _onDominoHitNext felling the domino at the end of the row.
onDominoHitNext_FellsLast(w, ev) ==
  IF w.state # "DOMINOS_FALLING" THEN w
  ELSE [w EXCEPT !.dominos[Len(w.dominos)] =
                   [@ EXCEPT !.angularVelocity = 1500, !.fallen = TRUE]]

\* _onDominoHitNext without the test of the state.
onDominoHitNext_NoGuard(w, ev) ==
  [w EXCEPT !.dominos[ev.to] = [@ EXCEPT !.angularVelocity = 1500,
                                         !.fallen = TRUE]]

\* { from, to }
onDominoHitNext(w, ev) ==
  IF w.state # "DOMINOS_FALLING" THEN w
  ELSE [w EXCEPT !.dominos[ev.to] = [@ EXCEPT !.angularVelocity = 1500,
                                              !.fallen = TRUE]]

\* _onPendulumHitBall2 ending the chain in the reserved state.
onPendulumHitBall2_Done(w, ev) ==
  IF w.state # "PENDULUM_SWINGING" /\ w.state # "DOMINOS_FALLING" THEN w
  ELSE [w EXCEPT
          !.ball2 = [@ EXCEPT !.active = TRUE, !.velocity = Vec(3000, 0, 0)],
          !.state = "DONE"]

\* { ball2 }
onPendulumHitBall2(w, ev) ==
  IF w.state # "PENDULUM_SWINGING" /\ w.state # "DOMINOS_FALLING" THEN w
  ELSE [w EXCEPT
          !.ball2 = [@ EXCEPT !.active = TRUE, !.velocity = Vec(3000, 0, 0)],
          !.state = "BALL2_ROLLING"]

\* The switch of update: an event type without a case is passed over.
dispatch(w, ev) ==
  CASE ev.type = "BALL1_HIT_FIRST_DOMINO" -> onBall1HitFirstDomino(w, ev)
    [] ev.type = "DOMINO_HIT_NEXT"        -> onDominoHitNext(w, ev)
    [] ev.type = "PENDULUM_HIT_BALL2"     -> onPendulumHitBall2(w, ev)
    [] OTHER                              -> w

\* collisionEvents.forEach walking the queue from its end.
RECURSIVE forEach_Reversed(_, _)
forEach_Reversed(w, evs) ==
  IF evs = <<>> THEN w
  ELSE dispatch(forEach_Reversed(w, Tail(evs)), Head(evs))

\* collisionEvents.forEach, in queue order.
RECURSIVE forEach(_, _)
forEach(w, evs) ==
  IF evs = <<>> THEN w ELSE forEach(dispatch(w, Head(evs)), Tail(evs))

\* update(dt, collisionEvents)
update(w, evs) ==
  forEach(IF w.state = "IDLE" THEN startBall1(w) ELSE w, evs)

\* ---------------------------------------------------------------- AnimationSystem
\* v * dt, dt in thousandths of a second.
MulDt(v, dt) == (v * dt) \div 1000

\* THREE.Vector3.addScaledVector(v, dt)
addScaledVector(p, v, dt) ==
  Vec(p[1] + MulDt(v[1], dt), p[2] + MulDt(v[2], dt), p[3] + MulDt(v[3], dt))

\* Math.sin and Math.cos of an angle in thousandths of a radian: the angle
\* is brought into [-pi, pi), folded into [-pi/2, pi/2], and the series is
\* taken up to the seventh power there.
ReduceAngle(a) ==
  LET r == ((a + 3142) % 6283) - 3142
  IN IF r > 1571 THEN 3142 - r ELSE IF r < -1571 THEN -3142 - r ELSE r

SinSeries(x) ==
  LET x2 == (x * x) \div 1000
      x3 == (x2 * x) \div 1000
      x5 == (x3 * x2) \div 1000
      x7 == (x5 * x2) \div 1000
  IN x - x3 \div 6 + x5 \div 120 - x7 \div 5040

Sin(a) == SinSeries(ReduceAngle(a))

Cos(a) == Sin(a + 1571)

Abs(x) == IF x < 0 THEN -x ELSE x

\* this.gravity
gravity == Vec(0, -9800, 0)

\* this.accel: the tangent (cos theta, sin theta, 0), theta = -0.4, scaled
\* by -9.8 * sin(theta).
accel == Vec(3515, -1486, 0)

\* RGMState.<name>: a name the enumeration lacks reads as undefined.
RGMStateOf(name) == IF name \in RGMState THEN name ELSE "undefined"

\* _updateBall letting gravity act on a ball that rolls on the rail.
updateBall_GravityOnRail(ball, dt, st) ==
  IF ~ball.active THEN ball
  ELSE LET v == IF st = RGMStateOf("BALL1_ROLLING")
                  THEN addScaledVector(ball.velocity, gravity, dt)
                ELSE IF st = RGMStateOf("BALL1_FALLING")
                  THEN addScaledVector(ball.velocity, accel, dt)
                ELSE IF st = RGMStateOf("BALL2_ROLLING") /\ ball.position[1] > 4500
                  THEN addScaledVector(ball.velocity, gravity, dt)
                ELSE ball.velocity
       IN [ball EXCEPT !.velocity = v,
                       !.position = addScaledVector(ball.position, v, dt)]

\* _updateBall applying gravity in BALL2_ROLLING wherever the ball is.
updateBall_NoThreshold(ball, dt, st) ==
  IF ~ball.active THEN ball
  ELSE LET v == IF st = RGMStateOf("BALL1_ROLLING") THEN ball.velocity
                ELSE IF st = RGMStateOf("BALL1_FALLING")
                  THEN addScaledVector(ball.velocity, accel, dt)
                ELSE IF st = RGMStateOf("BALL2_ROLLING")
                  THEN addScaledVector(ball.velocity, gravity, dt)
                ELSE ball.velocity
       IN [ball EXCEPT !.velocity = v,
                       !.position = addScaledVector(ball.position, v, dt)]

\* _updateBall retiring a ball that has rolled past the end of the track.
updateBall_RetiresBall(ball, dt, st) ==
  IF ~ball.active THEN ball
  ELSE LET v == IF st = RGMStateOf("BALL1_ROLLING") THEN ball.velocity
                ELSE IF st = RGMStateOf("BALL1_FALLING")
                  THEN addScaledVector(ball.velocity, accel, dt)
                ELSE IF st = RGMStateOf("BALL2_ROLLING") /\ ball.position[1] > 4500
                  THEN addScaledVector(ball.velocity, gravity, dt)
                ELSE ball.velocity
       IN [ball EXCEPT !.velocity = v,
                       !.position = addScaledVector(ball.position, v, dt),
                       !.active = ~(ball.position[1] > 4500)]

\* _updateBall without the early return for an inactive ball.
updateBall_NoActiveCheck(ball, dt, st) ==
  LET v == IF st = RGMStateOf("BALL1_ROLLING") THEN ball.velocity
           ELSE IF st = RGMStateOf("BALL1_FALLING")
             THEN addScaledVector(ball.velocity, accel, dt)
           ELSE IF st = RGMStateOf("BALL2_ROLLING") /\ ball.position[1] > 4500
             THEN addScaledVector(ball.velocity, gravity, dt)
           ELSE ball.velocity
  IN [ball EXCEPT !.velocity = v,
                  !.position = addScaledVector(ball.position, v, dt)]

\* _updateBall(ball, dt, state)
updateBall(ball, dt, st) ==
  IF ~ball.active THEN ball
  ELSE
    LET v == IF st = RGMStateOf("BALL1_ROLLING") THEN ball.velocity
             ELSE IF st = RGMStateOf("BALL1_FALLING")
               THEN addScaledVector(ball.velocity, accel, dt)
             ELSE IF st = RGMStateOf("BALL2_ROLLING") /\ ball.position[1] > 4500
               THEN addScaledVector(ball.velocity, gravity, dt)
             ELSE ball.velocity
    IN [ball EXCEPT !.velocity = v,
                    !.position = addScaledVector(ball.position, v, dt)]

\* _updatePendulum advancing the angle by the angular velocity of the
\* frame before.
updatePendulum_AngleFirst(p, dt) ==
  IF ~p.active THEN p
  ELSE
    LET acc == -((9800 * Sin(p.angle)) \div p.length)
        av == p.angularVelocity + MulDt(acc, dt)
    IN [p EXCEPT !.angularVelocity = av,
                 !.angle = p.angle + MulDt(p.angularVelocity, dt)]

\* _updatePendulum(dt, state)
updatePendulum(p, dt) ==
  IF ~p.active THEN p
  ELSE
    LET acc == -((9800 * Sin(p.angle)) \div p.length)
        av == p.angularVelocity + MulDt(acc, dt)
    IN [p EXCEPT !.angularVelocity = av, !.angle = p.angle + MulDt(av, dt)]

\* One clamp target, the flat one, for every domino of the row.
target_SameForAll(idx, lastIndex) == -1571

\* The clamp targets of _updateDominos: -pi/2 for the last domino,
\* -(3.6 pi)/9 for the others.
target(idx, lastIndex) == IF idx = lastIndex THEN -1571 ELSE -1257

\* _updateDominos clamping the angle without stopping the domino.
updateDominos_KeepsVelocity(ds, dt) ==
  [idx \in DOMAIN ds |->
     LET d == ds[idx]
         a == d.angle + MulDt(d.angularVelocity, dt)
     IN IF ~d.fallen THEN d
        ELSE IF a < target(idx, Len(ds))
          THEN [d EXCEPT !.angle = target(idx, Len(ds))]
        ELSE [d EXCEPT !.angle = a]]

\* _updateDominos(dt)
updateDominos(ds, dt) ==
  [idx \in DOMAIN ds |->
     LET d == ds[idx]
         a == d.angle + MulDt(d.angularVelocity, dt)
     IN IF ~d.fallen THEN d
        ELSE IF a < target(idx, Len(ds))
          THEN [d EXCEPT !.angle = target(idx, Len(ds)), !.angularVelocity = 0]
        ELSE [d EXCEPT !.angle = a]]

\* _syncAllMeshes writing the meshes of the phong graph only.
syncAllMeshes_PhongOnly(w) ==
  [w EXCEPT !.ball1.mesh.phong = w.ball1.position,
            !.ball2.mesh.phong = w.ball2.position,
            !.pendulum.pivot.phong = w.pendulum.angle,
            !.dominos = [i \in DOMAIN w.dominos |->
                           [w.dominos[i] EXCEPT !.rotation.phong = w.dominos[i].angle]]]

\* _syncAllMeshes(): Object.values(meshes).forEach over the three graphs.
syncAllMeshes(w) ==
  [w EXCEPT !.ball1.mesh = AllMeshes(w.ball1.position),
            !.ball2.mesh = AllMeshes(w.ball2.position),
            !.pendulum.pivot = AllMeshes(w.pendulum.angle),
            !.dominos = [i \in DOMAIN w.dominos |->
                           [w.dominos[i] EXCEPT !.rotation = AllMeshes(w.dominos[i].angle)]]]

\* AnimationSystem.update(dt, state)
animationUpdate(w, dt, st) ==
  syncAllMeshes(
    [w EXCEPT !.ball1 = updateBall(w.ball1, dt, st),
              !.ball2 = updateBall(w.ball2, dt, st),
              !.pendulum = updatePendulum(w.pendulum, dt),
              !.dominos = updateDominos(w.dominos, dt)])

\* ---------------------------------------------------------------- CollisionSystem
SetMin(S) == CHOOSE x \in S : \A y \in S : x <= y

SetMax(S) == CHOOSE x \in S : \A y \in S : x >= y

\* THREE.Box3 in x and y.
Box3(minx, maxx, miny, maxy) ==
  [minx |-> minx, maxx |-> maxx, miny |-> miny, maxy |-> maxy]

\* THREE.Box3.intersectsBox: touching boxes intersect.
intersectsBox(a, b) ==
  ~(b.maxx < a.minx \/ b.minx > a.maxx \/ b.maxy < a.miny \/ b.miny > a.maxy)

\* _ensureWorldBounds of a ball mesh: the sphere's box about the mesh position.
ballBox(mesh, radius) ==
  Box3(mesh[1] - radius, mesh[1] + radius, mesh[2] - radius, mesh[2] + radius)

\* _ensureWorldBounds of the bob: a sphere of radius 0.4 hanging 3 below the
\* pivot at (-15.2, 6.2), turned with the pivot.
bobBox(rot) ==
  LET cx == -15200 + (3000 * Sin(rot)) \div 1000
      cy == 6200 - (3000 * Cos(rot)) \div 1000
      h == (400 * (Abs(Cos(rot)) + Abs(Sin(rot)))) \div 1000
  IN Box3(cx - h, cx + h, cy - h, cy + h)

\* _ensureWorldBounds of the ramp: a 7 x 0.3 box at (-7, 1.236) turned by
\* -0.39; the ramp never moves.
rampBox == Box3(-10294, -3706, -233, 2705)

\* _ensureWorldBounds of the first domino: the box [-0.2, 0] x [0, 1] turned
\* by the mesh rotation about its base at (-3.6, 0).
dominoBox(rot) ==
  LET corners == {<<x, y>> : x \in {-200, 0}, y \in {0, 1000}}
      xs == {(c[1] * Cos(rot) - c[2] * Sin(rot)) \div 1000 : c \in corners}
      ys == {(c[1] * Sin(rot) + c[2] * Cos(rot)) \div 1000 : c \in corners}
  IN Box3(-3600 + SetMin(xs), -3600 + SetMax(xs), SetMin(ys), SetMax(ys))

\* The checks work on c = [w: the store, q: this.events, thrown: a check
\* has thrown and update was left].
emitTo(c, ev) == [c EXCEPT !.q = Append(c.q, ev)]

\* _checkPendulumHitsBall1()
checkPendulumHitsBall1(c) ==
  IF intersectsBox(bobBox(c.w.pendulum.pivot.phong),
                   ballBox(c.w.ball1.mesh.phong, 300))
    THEN emitTo(c, emit("PENDULUM_HIT_BALL1", 0, 0))
    ELSE c

\* _checkBall1HitsRamp stopping ball1 itself when it reports the hit.
checkBall1HitsRamp_StopsBall(c, hasRamp) ==
  IF ~hasRamp THEN [c EXCEPT !.thrown = TRUE]
  ELSE IF intersectsBox(ballBox(c.w.ball1.mesh.phong, 300), rampBox)
    THEN [emitTo(c, emit("BALL1_HIT_RAMP", 0, 0))
            EXCEPT !.w.ball1.velocity = Vec(0, 0, 0)]
    ELSE c

\* _checkBall1HitsRamp(): without rgm.ramp, ramp.meshes throws a TypeError.
checkBall1HitsRamp(c, hasRamp) ==
  IF ~hasRamp THEN [c EXCEPT !.thrown = TRUE]
  ELSE IF intersectsBox(ballBox(c.w.ball1.mesh.phong, 300), rampBox)
    THEN emitTo(c, emit("BALL1_HIT_RAMP", 0, 0))
    ELSE c

\* _checkBall1HitsFirstDomino without the test of firstDomino.fallen.
checkBall1HitsFirstDomino_NoFallenTest(c) ==
  IF Len(c.w.dominos) = 0 THEN c
  ELSE IF intersectsBox(ballBox(c.w.ball1.mesh.phong, 300),
                        dominoBox(c.w.dominos[1].rotation.phong))
    THEN emitTo(c, emit("BALL1_HIT_FIRST_DOMINO", 0, 1))
    ELSE c

\* _checkBall1HitsFirstDomino()
checkBall1HitsFirstDomino(c) ==
  IF Len(c.w.dominos) = 0 THEN c
  ELSE IF c.w.dominos[1].fallen THEN c
  ELSE IF intersectsBox(ballBox(c.w.ball1.mesh.phong, 300),
                        dominoBox(c.w.dominos[1].rotation.phong))
    THEN emitTo(c, emit("BALL1_HIT_FIRST_DOMINO", 0, 1))
    ELSE c

\* _checkDominoChain without the continue on the fallen flags.
RECURSIVE checkDominoChain_NoContinue(_, _)
checkDominoChain_NoContinue(c, i) ==
  IF i > Len(c.w.dominos) - 1 THEN c
  ELSE
    LET d1 == c.w.dominos[i]
    IN IF Abs(d1.angle) > 593
         THEN checkDominoChain_NoContinue(
                emitTo(c, emit("DOMINO_HIT_NEXT", i, i + 1)), i + 1)
       ELSE checkDominoChain_NoContinue(c, i + 1)

\* _checkDominoChain comparing the signed angle with the threshold.
RECURSIVE checkDominoChain_NoAbs(_, _)
checkDominoChain_NoAbs(c, i) ==
  IF i > Len(c.w.dominos) - 1 THEN c
  ELSE
    LET d1 == c.w.dominos[i]
        d2 == c.w.dominos[i + 1]
    IN IF ~d1.fallen \/ d2.fallen THEN checkDominoChain_NoAbs(c, i + 1)
       ELSE IF d1.angle > 593
         THEN checkDominoChain_NoAbs(
                emitTo(c, emit("DOMINO_HIT_NEXT", i, i + 1)), i + 1)
       ELSE checkDominoChain_NoAbs(c, i + 1)

\* _checkDominoChain(), from the pair (i, i + 1) on; 1.7 pi / 9 is 0.5934.
RECURSIVE checkDominoChain(_, _)
checkDominoChain(c, i) ==
  IF i > Len(c.w.dominos) - 1 THEN c
  ELSE
    LET d1 == c.w.dominos[i]
        d2 == c.w.dominos[i + 1]
    IN IF ~d1.fallen \/ d2.fallen THEN checkDominoChain(c, i + 1)
       ELSE IF Abs(d1.angle) > 593
         THEN checkDominoChain(emitTo(c, emit("DOMINO_HIT_NEXT", i, i + 1)), i + 1)
       ELSE checkDominoChain(c, i + 1)

\* _checkDominoHitsBall2 looking at the first domino of the row.
checkDominoHitsBall2_FirstDomino(c) ==
  IF Len(c.w.dominos) = 0 THEN c
  ELSE
    LET lastDomino == c.w.dominos[1]
    IN IF ~lastDomino.fallen THEN c
       ELSE IF lastDomino.angle < -600
         THEN emitTo(c, emit("DOMINO_HIT_BALL2", 0, 0))
       ELSE c

\* _checkDominoHitsBall2()
checkDominoHitsBall2(c) ==
  IF Len(c.w.dominos) = 0 THEN c
  ELSE
    LET lastDomino == c.w.dominos[Len(c.w.dominos)]
    IN IF ~lastDomino.fallen THEN c
       ELSE IF lastDomino.angle < -600
         THEN emitTo(c, emit("DOMINO_HIT_BALL2", 0, 0))
       ELSE c

\* CollisionSystem.update dropping what the queue held before the call.
collisionUpdate_SkipsRepeats(w, q, hasRamp) ==
  LET c0 == [w |-> w, q |-> <<>>, thrown |-> FALSE]
      c2 == checkBall1HitsRamp(checkPendulumHitsBall1(c0), hasRamp)
      c5 == IF c2.thrown THEN c2
            ELSE checkDominoHitsBall2(
                   checkDominoChain(checkBall1HitsFirstDomino(c2), 1))
  IN [c5 EXCEPT !.q = SelectSeq(c5.q,
                        LAMBDA e : \A k \in 1..Len(q) : q[k] # e)]

\* CollisionSystem.update without this.events.length = 0.
collisionUpdate_NoClear(w, q, hasRamp) ==
  LET c0 == [w |-> w, q |-> q, thrown |-> FALSE]
      c2 == checkBall1HitsRamp(checkPendulumHitsBall1(c0), hasRamp)
  IN IF c2.thrown THEN c2
     ELSE checkDominoHitsBall2(
            checkDominoChain(checkBall1HitsFirstDomino(c2), 1))

\* CollisionSystem.update(dt): this.events.length = 0, then the checks in
\* order; a check that throws ends the call.
collisionUpdate(w, q, hasRamp) ==
  LET c0 == [w |-> w, q |-> <<>>, thrown |-> FALSE]
      c2 == checkBall1HitsRamp(checkPendulumHitsBall1(c0), hasRamp)
  IN IF c2.thrown THEN c2
     ELSE checkDominoHitsBall2(
            checkDominoChain(checkBall1HitsFirstDomino(c2), 1))

\* ---------------------------------------------------------------- state machine
\* ---- Shading modes: InputManager.js, MainApp.js, MainNew.js ----

MaxPresses == 4

\* _cycleShadingMode showing the next root and hiding none.
cycleShadingMode_KeepsShown(st, g) ==
  LET mode == st.currentMode
      nextMode == IF mode = "phong" THEN "gouraud"
                  ELSE IF mode = "gouraud" THEN "blinn"
                  ELSE "phong"
  IN [state |-> [st EXCEPT !.currentMode = nextMode],
      graphs |-> [g EXCEPT ![nextMode].root.visible = TRUE]]

\* _cycleShadingMode of InputManager.js, bound to the key p by MainNew.js.
cycleShadingMode(st, g) ==
  LET mode == st.currentMode
      nextMode == IF mode = "phong" THEN "gouraud"
                  ELSE IF mode = "gouraud" THEN "blinn"
                  ELSE "phong"
  IN [state |-> [st EXCEPT !.currentMode = nextMode],
      graphs |-> [m \in Modes |-> [root |-> [visible |-> nextMode = m]]]]

\* The keydown listener of MainApp.js for the key p.
onKeydownP(st, g) ==
  IF st.currentMode = "phong"
  THEN [state |-> [st EXCEPT !.currentMode = "gouraud"],
        graphs |-> [g EXCEPT !["phong"].root.visible = FALSE,
                             !["gouraud"].root.visible = TRUE]]
  ELSE IF st.currentMode = "gouraud"
  THEN [state |-> [st EXCEPT !.currentMode = "blinn"],
        graphs |-> [g EXCEPT !["gouraud"].root.visible = FALSE,
                             !["blinn"].root.visible = TRUE]]
  ELSE IF st.currentMode = "blinn"
  THEN [state |-> [st EXCEPT !.currentMode = "phong"],
        graphs |-> [g EXCEPT !["blinn"].root.visible = FALSE,
                             !["phong"].root.visible = TRUE]]
  ELSE [state |-> st, graphs |-> g]

\* The mode and the visibilities each script sets after building the graphs.
initialMode(d) == IF d = "MainNew" THEN "gouraud" ELSE "blinn"

ShadingInit ==
  /\ shadingState = [currentMode |-> initialMode(driver)]
  /\ graphs = [m \in Modes |-> [root |-> [visible |-> m = initialMode(driver)]]]
  /\ presses = 0

World ==
  [state |-> state, ball1 |-> ball1, ball2 |-> ball2, dominos |-> dominos,
   pendulum |-> pendulum]

SetWorld(w) ==
  /\ state' = w.state
  /\ ball1' = w.ball1
  /\ ball2' = w.ball2
  /\ dominos' = w.dominos
  /\ pendulum' = w.pendulum

\* The chain scenario: these events, one per update call, in this order.
Scenario ==
  <<emit("PENDULUM_HIT_BALL1", 0, 0), emit("BALL1_HIT_RAMP", 0, 0),
    emit("BALL1_HIT_FIRST_DOMINO", 0, 1), emit("DOMINO_HIT_NEXT", 1, 2),
    emit("DOMINO_HIT_BALL2", 0, 0)>>

\* scen = k: the calls since construction were exactly the first k
\* deliveries of the scenario; -1 once they left it.
ScenarioAfter(k, evs) ==
  IF k >= 0 /\ k < Len(Scenario) /\ evs = <<Scenario[k + 1]>> THEN k + 1 ELSE -1

Init ==
  /\ state = constructor.state
  /\ ball1 = constructor.ball1
  /\ ball2 = constructor.ball2
  /\ dominos = constructor.dominos
  /\ pendulum = constructor.pendulum
  /\ events = <<>>
  /\ lastOp = "constructor"
  /\ pre = buildRGMObjects
  /\ scen = 0
  /\ driver = "MainNew"
  /\ calls = <<>>
  /\ frame = 0
  /\ delta = 0
  /\ prev = <<>>
  /\ ShadingInit

\* One call of RGMController.update with a queue of events.
Update ==
  \E evs \in Queues :
    /\ SetWorld(update(World, evs))
    /\ events' = evs
    /\ lastOp' = "update"
    /\ pre' = World
    /\ scen' = ScenarioAfter(scen, evs)
    /\ UNCHANGED <<frameVars, prev, uiVars>>

\* One call of RGMController._reset.
Reset ==
  /\ SetWorld(reset(World))
  /\ lastOp' = "reset"
  /\ pre' = World
  /\ scen' = -1
  /\ UNCHANGED <<events, frameVars, prev, uiVars>>

Next == Update \/ Reset

Spec == Init /\ [][Next]_vars

\* ---------------------------------------------------------------- the animate loops
\* The dt values clock.getDelta() hands to a frame.
Dts == {0, 500, 1000}

Drivers == {"MainNew", "MainApp"}

\* The order in which animate calls the three updates: MainNew.js (and the
\* updated MainApp of src/unnamed/part_000) against src/A4/MainApp.js.
Order(d) ==
  IF d = "MainNew" THEN <<"animation", "collision", "controller">>
  ELSE <<"controller", "animation", "collision">>

\* The state argument of animationSystem.update: MainApp.js passes none.
stateArg(d, st) == IF d = "MainNew" THEN st ELSE "undefined"

\* buildRGMObjects of MainApp.js gives the store no ramp.
hasRamp(d) == d = "MainNew"

\* The calls made so far in the frame that is running.
InFrame == IF Len(calls) = Len(Order(driver)) THEN <<>> ELSE calls

\* animate is about to call the update named c.
Calling(c) ==
  /\ Order(driver)[Len(InFrame) + 1] = c
  /\ InFrame = <<>> => frame < MaxFrames
  /\ calls' = Append(InFrame, c)
  /\ frame' = IF InFrame = <<>> THEN frame + 1 ELSE frame
  /\ IF InFrame = <<>> THEN delta' \in Dts ELSE delta' = delta
  /\ UNCHANGED <<driver, scen, uiVars>>

FrameInit ==
  /\ state = constructor.state
  /\ ball1 = constructor.ball1
  /\ ball2 = constructor.ball2
  /\ dominos = constructor.dominos
  /\ pendulum = constructor.pendulum
  /\ events = <<>>
  /\ lastOp = "constructor"
  /\ pre = buildRGMObjects
  /\ scen = -1
  /\ driver \in Drivers
  /\ calls = <<>>
  /\ frame = 0
  /\ delta = 0
  /\ prev = <<>>
  /\ ShadingInit

\* animationSystem.update(dt, controller.state)
AnimationStep ==
  /\ Calling("animation")
  /\ SetWorld(animationUpdate(World, delta', stateArg(driver, state)))
  /\ lastOp' = "animation"
  /\ pre' = World
  /\ UNCHANGED <<events, prev>>

\* collisionSystem.update(dt)
CollisionStep ==
  /\ Calling("collision")
  /\ LET c == collisionUpdate(World, events, hasRamp(driver))
     IN SetWorld(c.w) /\ events' = c.q
  /\ prev' = events
  /\ lastOp' = "collision"
  /\ pre' = World

\* controller.update(dt, collisionSystem.events)
ControllerStep ==
  /\ Calling("controller")
  /\ SetWorld(update(World, events))
  /\ lastOp' = "update"
  /\ pre' = World
  /\ UNCHANGED <<events, prev>>

FrameNext == AnimationStep \/ CollisionStep \/ ControllerStep

\* The frames of the animate loop, and nothing else.
FrameSpec == FrameInit /\ [][FrameNext]_vars

\* The dominos AnimationSystem may be handed: one that has not fallen is
\* as _reset left it, a fallen one leans and turns either way.
DominoInputs ==
  {[angle |-> 0, angularVelocity |-> 0, fallen |-> FALSE,
    rotation |-> AllMeshes(0)]}
  \cup {[angle |-> a, angularVelocity |-> v, fallen |-> TRUE,
          rotation |-> AllMeshes(a)] :
          a \in {0, -1000}, v \in {-1500, 1500}}

DominoInit ==
  /\ state = constructor.state
  /\ ball1 = constructor.ball1
  /\ ball2 = constructor.ball2
  /\ dominos \in [1..NumDominos -> DominoInputs]
  /\ pendulum = constructor.pendulum
  /\ events = <<>>
  /\ lastOp = "constructor"
  /\ pre = buildRGMObjects
  /\ scen = -1
  /\ driver = "MainNew"
  /\ calls = <<>>
  /\ frame = 0
  /\ delta = 0
  /\ prev = <<>>
  /\ ShadingInit

\* The frames of MainNew's animate loop over any dominos.
DominoSpec == DominoInit /\ [][FrameNext]_vars

\* The pendulums AnimationSystem may be handed: at rest or swinging,
\* switched on or off.
PendulumInputs ==
  {[constructor.pendulum EXCEPT !.angle = a, !.angularVelocity = v,
                                !.active = on, !.pivot = AllMeshes(a)] :
     a \in {0, 500}, v \in {0, -300}, on \in BOOLEAN}

PendulumInit ==
  /\ state = constructor.state
  /\ ball1 = constructor.ball1
  /\ ball2 = constructor.ball2
  /\ dominos = constructor.dominos
  /\ pendulum \in PendulumInputs
  /\ events = <<>>
  /\ lastOp = "constructor"
  /\ pre = buildRGMObjects
  /\ scen = -1
  /\ driver \in Drivers
  /\ calls = <<>>
  /\ frame = 0
  /\ delta = 0
  /\ prev = <<>>
  /\ ShadingInit

\* The frames of the animate loops over any pendulum.
PendulumSpec == PendulumInit /\ [][FrameNext]_vars

\* ball1 placed against the first domino, at half its height.
AtFirstDomino == Vec(-3700, 500, 0)

ContactInit ==
  /\ state = constructor.state
  /\ ball1 = [constructor.ball1 EXCEPT !.position = AtFirstDomino,
                                       !.mesh = AllMeshes(AtFirstDomino)]
  /\ ball2 = constructor.ball2
  /\ dominos \in [1..NumDominos -> DominoInputs]
  /\ pendulum = constructor.pendulum
  /\ events = <<>>
  /\ lastOp = "constructor"
  /\ pre = buildRGMObjects
  /\ scen = -1
  /\ driver = "MainNew"
  /\ calls = <<>>
  /\ frame = 0
  /\ delta = 0
  /\ prev = <<>>
  /\ ShadingInit

\* The frames of MainNew's animate loop with ball1 at the dominos.
ContactSpec == ContactInit /\ [][FrameNext]_vars

\* The store after the auto-start and a direct call of controller.update
\* with BALL1_HIT_FIRST_DOMINO: DOMINOS_FALLING, the first domino fallen.
FirstDominoFelled ==
  update(update(constructor, <<>>), <<emit("BALL1_HIT_FIRST_DOMINO", 0, 1)>>)

LiveInit ==
  /\ state = FirstDominoFelled.state
  /\ ball1 = FirstDominoFelled.ball1
  /\ ball2 = FirstDominoFelled.ball2
  /\ dominos = FirstDominoFelled.dominos
  /\ pendulum = FirstDominoFelled.pendulum
  /\ events = <<>>
  /\ lastOp = "update"
  /\ pre = update(constructor, <<>>)
  /\ scen = -1
  /\ driver = "MainNew"
  /\ calls = <<>>
  /\ frame = 0
  /\ delta = 0
  /\ prev = <<>>
  /\ ShadingInit

\* A call of a frame whose clock.getDelta() is above 0.
LiveNext == FrameNext /\ delta' > 0

\* requestAnimationFrame(animate): the next call of the running frame, or
\* the first call of the next frame, is made while frames are left.
Animate ==
  \E c \in {"animation", "collision", "controller"} :
    Calling(c) /\ delta' > 0

\* The frames of MainNew's animate loop with dt > 0 from the first domino's
\* fall on; the browser keeps calling animate.
LiveSpec == LiveInit /\ [][LiveNext]_vars /\ WF_frameVars(Animate)

\* The frames of MainNew's animate loop from the first domino's fall on,
\* with any dt.
ChainSpec == LiveInit /\ [][FrameNext]_vars

\* The key p goes down between two frames.
KeyDown ==
  /\ InFrame = <<>>
  /\ presses < MaxPresses
  /\ LET r == IF driver = "MainNew" THEN cycleShadingMode(shadingState, graphs)
              ELSE onKeydownP(shadingState, graphs)
     IN shadingState' = r.state /\ graphs' = r.graphs
  /\ presses' = presses + 1
  /\ UNCHANGED <<state, ball1, ball2, dominos, pendulum, events, lastOp, pre,
                 scen, frameVars, prev>>

ShadingNext == AnimationStep \/ CollisionStep \/ ControllerStep \/ KeyDown

\* The frames of the animate loops with presses of the shading key between
\* them.
ShadingSpec == FrameInit /\ [][ShadingNext]_vars

\* A direct call of controller.update between two frames, with a queue of
\* one event; collisionSystem.events is not touched.
Inject ==
  /\ InFrame = <<>>
  /\ \E e \in Events : SetWorld(update(World, <<e>>))
  /\ lastOp' = "inject"
  /\ pre' = World
  /\ UNCHANGED <<events, scen, frameVars, prev, uiVars>>

OpenNext == AnimationStep \/ CollisionStep \/ ControllerStep \/ Inject

\* The frames of the animate loop with direct calls of the controller
\* between them.
OpenSpec == FrameInit /\ [][OpenNext]_vars

\* ---------------------------------------------------------------- guards
\* The states in which a handler lets its event through (the early return
\* of each handler); an event type without a handler has none.
guard(type) ==
  CASE type = "BALL1_HIT_FIRST_DOMINO" -> {"BALL1_ROLLING"}
    [] type = "DOMINO_HIT_NEXT"        -> {"DOMINOS_FALLING"}
    [] type = "PENDULUM_HIT_BALL2"     -> {"PENDULUM_SWINGING", "DOMINOS_FALLING"}
    [] OTHER                           -> {}

\* The handlers that assign this.state.
StateChanging == {"BALL1_HIT_FIRST_DOMINO", "PENDULUM_HIT_BALL2"}

\* Position of a state in the RGMState enumeration.
Rank(s) ==
  CASE s = "IDLE" -> 0
    [] s = "BALL1_ROLLING" -> 1
    [] s = "DOMINOS_FALLING" -> 2
    [] s = "PENDULUM_SWINGING" -> 3
    [] s = "BALL2_ROLLING" -> 4
    [] s = "DONE" -> 5

\* ---------------------------------------------------------------- properties
\* The chain of states the specification gives, each with its successor.
ChainSteps ==
  {<<"PENDULUM_SWINGING", "BALL1_ROLLING">>, <<"BALL1_ROLLING", "BALL1_FALLING">>,
   <<"BALL1_FALLING", "DOMINOS_FALLING">>, <<"DOMINOS_FALLING", "BALL2_ROLLING">>}

\* The guard state the transition table gives each event.
TableGuard(type) ==
  CASE type = "PENDULUM_HIT_BALL1"     -> "PENDULUM_SWINGING"
    [] type = "BALL1_HIT_RAMP"         -> "BALL1_ROLLING"
    [] type = "BALL1_HIT_FIRST_DOMINO" -> "BALL1_FALLING"
    [] type = "DOMINO_HIT_NEXT"        -> "DOMINOS_FALLING"
    [] type = "DOMINO_HIT_BALL2"       -> "DOMINOS_FALLING"

TableEvents == {e \in Events : e.type # "PENDULUM_HIT_BALL2"}

\* The latest operation was an update whose queue held exactly the event e,
\* and e was delivered in state s.  (From IDLE the update first starts
\* ball1, so no event is ever delivered in IDLE.)
DeliveredIn(e, s) ==
  /\ lastOp = "update"
  /\ events = <<e>>
  /\ pre.state = s
  /\ s # "IDLE"

\* C1: right after the constructor, before any update, the state is
\* PENDULUM_SWINGING.
C1_InitialStateIsPendulumSwinging ==
  lastOp = "constructor" => state = "PENDULUM_SWINGING"

\* C2: every change of the state goes from a state of the chain
\* PENDULUM_SWINGING, BALL1_ROLLING, BALL1_FALLING, DOMINOS_FALLING,
\* BALL2_ROLLING to its immediate successor.
C2_StateOnlyStepsForward ==
  [][state' # state => <<state, state'>> \in ChainSteps]_vars

\* C3: the machine waits in PENDULUM_SWINGING after construction, and
\* PENDULUM_HIT_BALL1 delivered in PENDULUM_SWINGING zeroes the pendulum's
\* angularVelocity, activates ball1 with velocity.x > 0 and moves the state
\* to BALL1_ROLLING.
C3_PendulumHitBall1StartsBall1 ==
  /\ lastOp = "constructor" => state = "PENDULUM_SWINGING"
  /\ DeliveredIn(emit("PENDULUM_HIT_BALL1", 0, 0), "PENDULUM_SWINGING") =>
       /\ pendulum.angularVelocity = 0
       /\ ball1.active
       /\ ball1.velocity[1] > 0
       /\ state = "BALL1_ROLLING"

\* C4: BALL1_HIT_RAMP delivered in BALL1_ROLLING zeroes ball1's velocity and
\* moves the state to BALL1_FALLING.
C4_Ball1HitRampStartsFalling ==
  DeliveredIn(emit("BALL1_HIT_RAMP", 0, 0), "BALL1_ROLLING") =>
    /\ ball1.velocity = Vec(0, 0, 0)
    /\ state = "BALL1_FALLING"

\* C5: BALL1_HIT_FIRST_DOMINO changes the state only when delivered in
\* BALL1_FALLING; then ball1's velocity is zero, the first domino is fallen
\* with a negative angularVelocity, and the state is DOMINOS_FALLING.
C5_FirstDominoOnlyFromBall1Falling ==
  \A s \in RGMState :
    (DeliveredIn(emit("BALL1_HIT_FIRST_DOMINO", 0, 1), s) /\ state # s) =>
      /\ s = "BALL1_FALLING"
      /\ ball1.velocity = Vec(0, 0, 0)
      /\ dominos[1].fallen
      /\ dominos[1].angularVelocity < 0
      /\ state = "DOMINOS_FALLING"

\* C6: DOMINO_HIT_NEXT(from, to) delivered in DOMINOS_FALLING with the
\* target not yet fallen marks the target fallen, gives it the source's
\* angularVelocity as it was when the event was delivered, and keeps the
\* state.
C6_DominoHitNextCopiesVelocity ==
  \A i \in 1..(NumDominos - 1) :
    (DeliveredIn(emit("DOMINO_HIT_NEXT", i, i + 1), "DOMINOS_FALLING")
       /\ ~pre.dominos[i + 1].fallen) =>
      /\ dominos[i + 1].fallen
      /\ dominos[i + 1].angularVelocity = pre.dominos[i].angularVelocity
      /\ state = "DOMINOS_FALLING"

\* C7: DOMINO_HIT_BALL2 delivered in DOMINOS_FALLING activates ball2 with
\* velocity.x > 0 and moves the state to BALL2_ROLLING.
C7_DominoHitBall2StartsBall2 ==
  DeliveredIn(emit("DOMINO_HIT_BALL2", 0, 0), "DOMINOS_FALLING") =>
    /\ ball2.active
    /\ ball2.velocity[1] > 0
    /\ state = "BALL2_ROLLING"

\* C8: an event of the transition table delivered in a state other than
\* its guard state changes neither the state nor any field of the store.
C8_GuardMissChangesNothing ==
  \A e \in TableEvents : \A s \in RGMState :
    (DeliveredIn(e, s) /\ s # TableGuard(e.type)) => World = pre

\* C9: once the state is past the guard of a state-changing event,
\* delivering that event again, once or twice in a row, changes neither
\* the state nor any field of the store.
C9_RedeliveryIsNoOp ==
  \A e \in Events :
    (/\ e.type \in StateChanging
     /\ lastOp = "update"
     /\ events \in {<<e>>, <<e, e>>}
     /\ \A g \in guard(e.type) : Rank(pre.state) > Rank(g)) =>
      World = pre

\* A redelivery: BALL1_HIT_FIRST_DOMINO arrives twice in DOMINOS_FALLING,
\* after its transition felled the first domino.
C9_Witness ==
  /\ lastOp = "update"
  /\ events = <<emit("BALL1_HIT_FIRST_DOMINO", 0, 1),
                emit("BALL1_HIT_FIRST_DOMINO", 0, 1)>>
  /\ pre.state = "DOMINOS_FALLING"
  /\ pre.dominos[1].fallen
  /\ state = "DOMINOS_FALLING"

\* C10: after reset both balls are inactive with zero velocity, every
\* domino is upright and at rest, the pendulum is at its starting angle, at
\* rest and active, and the state is the initial state.
C10_ResetRestoresInitialConditions ==
  lastOp = "reset" =>
    /\ \A b \in {ball1, ball2} : b.velocity = Vec(0, 0, 0) /\ ~b.active
    /\ \A i \in DOMAIN dominos :
         /\ ~dominos[i].fallen
         /\ dominos[i].angle = 0
         /\ dominos[i].angularVelocity = 0
    /\ pendulum.angle = constructor.pendulum.angle
    /\ pendulum.angularVelocity = 0
    /\ pendulum.active
    /\ state = constructor.state

\* The states the scenario is to pass through, one per delivery.
ScenarioStates ==
  <<"BALL1_ROLLING", "BALL1_FALLING", "DOMINOS_FALLING", "DOMINOS_FALLING",
    "BALL2_ROLLING">>

\* C11: delivering PENDULUM_HIT_BALL1, BALL1_HIT_RAMP,
\* BALL1_HIT_FIRST_DOMINO, DOMINO_HIT_NEXT(0,1), DOMINO_HIT_BALL2 from the
\* initial state, one per update, leaves the state BALL1_ROLLING,
\* BALL1_FALLING, DOMINOS_FALLING, DOMINOS_FALLING, BALL2_ROLLING, with the
\* first domino fallen from the third delivery on and ball2 active after
\* the last.
C11_ChainScenario ==
  scen >= 1 =>
    /\ state = ScenarioStates[scen]
    /\ scen >= 3 => dominos[1].fallen
    /\ scen = 5 => ball2.active

\* The logical fields of the store and the state: no mesh.
Logical(w) ==
  [state |-> w.state,
   balls |-> [b \in {"ball1", "ball2"} |->
                [position |-> w[b].position, velocity |-> w[b].velocity,
                 active |-> w[b].active]],
   pendulum |-> [angle |-> w.pendulum.angle,
                 angularVelocity |-> w.pendulum.angularVelocity,
                 active |-> w.pendulum.active],
   dominos |-> [i \in DOMAIN w.dominos |->
                  [angle |-> w.dominos[i].angle,
                   angularVelocity |-> w.dominos[i].angularVelocity,
                   fallen |-> w.dominos[i].fallen]]]

\* The activation and fallen flags of the store.
Flags(w) ==
  [ball1 |-> w.ball1.active, ball2 |-> w.ball2.active,
   pendulum |-> w.pendulum.active,
   fallen |-> [i \in DOMAIN w.dominos |-> w.dominos[i].fallen]]

\* The predicate of an event holds on the store as it is now.
PredicateHolds(e) ==
  CASE e.type = "PENDULUM_HIT_BALL1" ->
         intersectsBox(bobBox(pendulum.pivot.phong),
                       ballBox(ball1.mesh.phong, 300))
    [] e.type = "BALL1_HIT_RAMP" ->
         intersectsBox(ballBox(ball1.mesh.phong, 300), rampBox)
    [] e.type = "BALL1_HIT_FIRST_DOMINO" ->
         /\ ~dominos[1].fallen
         /\ intersectsBox(ballBox(ball1.mesh.phong, 300),
                          dominoBox(dominos[1].rotation.phong))
    [] e.type = "DOMINO_HIT_NEXT" ->
         /\ dominos[e.from].fallen
         /\ ~dominos[e.to].fallen
         /\ Abs(dominos[e.from].angle) > 593
    [] e.type = "DOMINO_HIT_BALL2" ->
         /\ dominos[Len(dominos)].fallen
         /\ dominos[Len(dominos)].angle < -600
    [] OTHER -> FALSE

\* C12: after CollisionSystem.update the queue holds the events emitted in
\* that call and nothing else: every entry is an event whose predicate
\* holds now, and no event is there twice.
C12_QueueHoldsOnlyThisCall ==
  lastOp = "collision" =>
    /\ \A k \in 1..Len(events) : PredicateHolds(events[k])
    /\ \A j, k \in 1..Len(events) : events[j] = events[k] => j = k

\* A call that found the queue of the frame before it filled and left it
\* empty: ball1 has rolled through the whole reach of the ramp, where
\* BALL1_HIT_RAMP is emitted in every frame.
C12_Witness ==
  /\ lastOp = "collision"
  /\ events = <<>>
  /\ ball1.mesh.phong[1] - 300 > rampBox.maxx

\* C13: CollisionSystem.update changes no ball position, velocity or active
\* flag, no pendulum or domino angle, angularVelocity or flag, and not the
\* Sequencer state.
C13_CollisionChangesNoState ==
  lastOp = "collision" => Logical(World) = Logical(pre)

\* A call that emitted an event while ball1 was rolling.
C13_Witness ==
  /\ lastOp = "collision"
  /\ events # <<>>
  /\ ball1.active
  /\ ball1.velocity # Vec(0, 0, 0)

\* C14: AnimationSystem.update leaves the position and the velocity of a
\* ball that is not active as they were.
C14_InactiveBallIsFrozen ==
  lastOp = "animation" =>
    \A b \in {"ball1", "ball2"} :
      ~pre[b].active =>
        /\ World[b].position = pre[b].position
        /\ World[b].velocity = pre[b].velocity

\* An update with dt > 0 (the active ball1 moved) while ball2 was inactive.
C14_Witness ==
  /\ lastOp = "animation"
  /\ ~pre.ball2.active
  /\ pre.ball1.active
  /\ ball1.position # pre.ball1.position

\* C15: after AnimationSystem.update no domino leans further than its
\* target, and a domino the update clamped is exactly at its target with
\* angularVelocity 0.
C15_ClampAtTarget ==
  lastOp = "animation" =>
    \A i \in DOMAIN dominos :
      /\ dominos[i].angle >= target(i, Len(dominos))
      /\ ( /\ pre.dominos[i].fallen
           /\ pre.dominos[i].angle
                + MulDt(pre.dominos[i].angularVelocity, delta)
              < target(i, Len(dominos)) )
         => /\ dominos[i].angle = target(i, Len(dominos))
            /\ dominos[i].angularVelocity = 0

\* An update that clamped the first and the last domino, each at its own
\* target, while they were turning towards it.
C15_Witness ==
  /\ lastOp = "animation"
  /\ \A i \in {1, Len(dominos)} :
       /\ pre.dominos[i].fallen
       /\ pre.dominos[i].angularVelocity < 0
       /\ pre.dominos[i].angle > target(i, Len(dominos))
       /\ dominos[i].angle = target(i, Len(dominos))
  /\ dominos[1].angle # dominos[Len(dominos)].angle

\* The calls of one pass of the animate loop.
FrameOps == {"animation", "collision", "update"}

\* C16: in a frame the angle of a fallen domino does not increase.
C16_FallenAngleNeverIncreases ==
  lastOp \in FrameOps =>
    \A i \in DOMAIN dominos :
      pre.dominos[i].fallen => dominos[i].angle <= pre.dominos[i].angle

\* C17: every frame calls AnimationSystem.update, then
\* CollisionSystem.update, then RGMController.update, so the controller
\* works on the events of the frame it runs in.
C17_FrameOrder ==
  \A k \in 1..Len(calls) :
    calls[k] = <<"animation", "collision", "controller">>[k]

C20_OnlyControllerSetsFlags ==
  lastOp \in {"animation", "collision"} => Flags(World) = Flags(pre)

\* An AnimationSystem.update that moved the active ball2 past the end of
\* the track and turned a fallen domino.
C20_Witness ==
  /\ lastOp = "animation"
  /\ pre.ball2.active
  /\ pre.ball2.position[1] > 4500
  /\ ball2.position # pre.ball2.position
  /\ \E i \in DOMAIN dominos :
       dominos[i].fallen /\ dominos[i].angle # pre.dominos[i].angle

\* The store after the physics of AnimationSystem.update, before the sync.
Integrated(w, dt, st) ==
  [w EXCEPT !.ball1 = updateBall(w.ball1, dt, st),
            !.ball2 = updateBall(w.ball2, dt, st),
            !.pendulum = updatePendulum(w.pendulum, dt),
            !.dominos = updateDominos(w.dominos, dt)]

\* C21: after AnimationSystem.update the mesh of every graph shows the
\* logical value (ball position, pendulum angle, domino angle), and the
\* logical fields are those the physics left: the sync changed none.
C21_MeshesMirrorLogicalState ==
  lastOp = "animation" =>
    /\ \A m \in Modes :
         /\ ball1.mesh[m] = ball1.position
         /\ ball2.mesh[m] = ball2.position
         /\ pendulum.pivot[m] = pendulum.angle
         /\ \A i \in DOMAIN dominos : dominos[i].rotation[m] = dominos[i].angle
    /\ Logical(World) =
         Logical(Integrated(pre, delta, stateArg(driver, pre.state)))

\* An update that moved ball2 and turned a fallen domino, so that every
\* mesh had to follow.
C21_Witness ==
  /\ lastOp = "animation"
  /\ ball2.position # pre.ball2.position
  /\ ball2.mesh.blinn # pre.ball2.mesh.blinn
  /\ \E i \in DOMAIN dominos :
       dominos[i].rotation.gouraud # pre.dominos[i].rotation.gouraud

\* C22: DONE is never the state, whatever update calls and resets are made.
C22_DoneIsNeverReached == state # "DONE"

\* The chain has taken its last transition, and a call was made after it.
C22_Witness ==
  /\ lastOp \in {"update", "reset"}
  /\ pre.state = "BALL2_ROLLING"
  /\ state = "BALL2_ROLLING"

\* The event is in collisionSystem.events.
Queued(e) == \E k \in 1..Len(events) : events[k] = e

\* C23: after CollisionSystem.update the queue holds DOMINO_HIT_NEXT from
\* domino i to domino i + 1 exactly when i is fallen, i + 1 is not and
\* |angle of i| is above 1.7 pi / 9; no DOMINO_HIT_NEXT links other dominos.
C23_DominoHitNextIffChainPredicate ==
  lastOp = "collision" =>
    /\ \A i \in 1..(Len(dominos) - 1) :
         Queued(emit("DOMINO_HIT_NEXT", i, i + 1))
           <=> /\ dominos[i].fallen
               /\ ~dominos[i + 1].fallen
               /\ Abs(dominos[i].angle) > 593
    /\ \A k \in 1..Len(events) :
         events[k].type = "DOMINO_HIT_NEXT" =>
           /\ events[k].from \in 1..(Len(dominos) - 1)
           /\ events[k].to = events[k].from + 1

\* A call that linked the first two dominos, the first leaning to the
\* negative side, and left a later pair alone.
C23_Witness ==
  /\ lastOp = "collision"
  /\ dominos[1].angle < -593
  /\ Queued(emit("DOMINO_HIT_NEXT", 1, 2))
  /\ \E i \in 2..(Len(dominos) - 1) : ~Queued(emit("DOMINO_HIT_NEXT", i, i + 1))

\* C24: after CollisionSystem.update the queue holds DOMINO_HIT_BALL2
\* exactly when the last domino is fallen and its angle is below -0.6; on a
\* store without dominos the update emits none.
C24_DominoHitBall2IffLastDominoDown ==
  lastOp = "collision" =>
    /\ Queued(emit("DOMINO_HIT_BALL2", 0, 0))
         <=> /\ dominos[Len(dominos)].fallen
             /\ dominos[Len(dominos)].angle < -600
    /\ \A k \in 1..Len(collisionUpdate([World EXCEPT !.dominos = <<>>],
                                       events, hasRamp(driver)).q) :
         collisionUpdate([World EXCEPT !.dominos = <<>>],
                         events, hasRamp(driver)).q[k].type # "DOMINO_HIT_BALL2"

\* A call that queued DOMINO_HIT_BALL2 while the first domino stood.
C24_Witness ==
  /\ lastOp = "collision"
  /\ Queued(emit("DOMINO_HIT_BALL2", 0, 0))
  /\ ~dominos[1].fallen

\* C25: CollisionSystem.update queues no BALL1_HIT_FIRST_DOMINO when the
\* first domino is fallen, wherever ball1 and the domino are.
C25_NoFirstDominoHitOnceFallen ==
  (lastOp = "collision" /\ dominos[1].fallen) =>
    \A k \in 1..Len(events) : events[k].type # "BALL1_HIT_FIRST_DOMINO"

\* A call with ball1's box over the box of the fallen first domino.
C25_Witness ==
  /\ lastOp = "collision"
  /\ dominos[1].fallen
  /\ intersectsBox(ballBox(ball1.mesh.phong, 300),
                   dominoBox(dominos[1].rotation.phong))

\* C26: a DOMINO_HIT_NEXT whose target is already fallen changes neither
\* the target's angularVelocity, angle and fallen flag nor the state.
C26_HitOnFallenTargetChangesNothing ==
  \A i \in 1..(NumDominos - 1) : \A s \in RGMState :
    (DeliveredIn(emit("DOMINO_HIT_NEXT", i, i + 1), s)
       /\ pre.dominos[i + 1].fallen) =>
      /\ dominos[i + 1].angularVelocity = pre.dominos[i + 1].angularVelocity
      /\ dominos[i + 1].angle = pre.dominos[i + 1].angle
      /\ dominos[i + 1].fallen
      /\ state = s

\* The event arrives in DOMINOS_FALLING, where the handler runs, for a
\* target an earlier DOMINO_HIT_NEXT has felled.
C26_Witness ==
  /\ DeliveredIn(emit("DOMINO_HIT_NEXT", 1, 2), "DOMINOS_FALLING")
  /\ pre.dominos[2].fallen
  /\ pre.dominos[2].angularVelocity # 0

\* C27: when the state passed to AnimationSystem.update is BALL1_ROLLING,
\* an active ball keeps its velocity and its position advances by
\* velocity * dt.
C27_RollingBallKeepsVelocity ==
  (lastOp = "animation" /\ stateArg(driver, pre.state) = "BALL1_ROLLING") =>
    \A b \in {"ball1", "ball2"} :
      pre[b].active =>
        /\ World[b].velocity = pre[b].velocity
        /\ World[b].position[1]
             = pre[b].position[1] + (pre[b].velocity[1] * delta) \div 1000
        /\ World[b].position[2]
             = pre[b].position[2] + (pre[b].velocity[2] * delta) \div 1000
        /\ World[b].position[3]
             = pre[b].position[3] + (pre[b].velocity[3] * delta) \div 1000

\* ball1 rolling, one second long.
C27_Witness ==
  /\ lastOp = "animation"
  /\ stateArg(driver, pre.state) = "BALL1_ROLLING"
  /\ pre.ball1.active
  /\ delta = 1000
  /\ ball1.position[1] = pre.ball1.position[1] + 2000

\* C28: the controller is in BALL1_FALLING in the frames after ball1 has
\* hit the ramp; in that state AnimationSystem.update adds accel * dt to
\* the velocity of every active ball, so ball1's velocity changes in every
\* such frame with dt > 0.
C28_FallingBallAccelerates ==
  /\ (lastOp = "animation" /\ pre.state = "BALL1_FALLING") =>
       \A b \in {"ball1", "ball2"} :
         pre[b].active =>
           World[b].velocity = addScaledVector(pre[b].velocity, accel, delta)
  /\ ( /\ lastOp = "animation"
       /\ driver = "MainNew"
       /\ Queued(emit("BALL1_HIT_RAMP", 0, 0))
       /\ pre.ball1.active
       /\ delta > 0 ) =>
       ball1.velocity # pre.ball1.velocity

\* C29: when the state passed to AnimationSystem.update is BALL2_ROLLING,
\* an active ball's velocity gains gravity * dt if its x at the start of
\* the ball update is above 4.5 and is unchanged otherwise.
C29_GravityOnlyPastTheEdge ==
  (lastOp = "animation" /\ stateArg(driver, pre.state) = "BALL2_ROLLING") =>
    \A b \in {"ball1", "ball2"} :
      pre[b].active =>
        /\ pre[b].position[1] <= 4500 => World[b].velocity = pre[b].velocity
        /\ World[b].velocity # pre[b].velocity =>
             /\ pre[b].position[1] > 4500
             /\ World[b].velocity[1] = pre[b].velocity[1]
             /\ World[b].velocity[2]
                  = pre[b].velocity[2] + (gravity[2] * delta) \div 1000

\* ball2 before the edge in a frame with dt > 0 that moved it.
C29_Witness ==
  /\ lastOp = "animation"
  /\ stateArg(driver, pre.state) = "BALL2_ROLLING"
  /\ pre.ball2.active
  /\ pre.ball2.position[1] <= 4500
  /\ ball2.position # pre.ball2.position

\* C30: AnimationSystem.update leaves the angle and the angularVelocity of
\* an inactive pendulum alone; for an active one it first adds
\* -(g / L) sin(angle) * dt to the angularVelocity and then advances the
\* angle by the new angularVelocity * dt.
C30_PendulumStepsOnlyWhenActive ==
  lastOp = "animation" =>
    IF ~pre.pendulum.active
      THEN /\ pendulum.angle = pre.pendulum.angle
           /\ pendulum.angularVelocity = pre.pendulum.angularVelocity
      ELSE /\ pendulum.angularVelocity
                = pre.pendulum.angularVelocity
                  + ((-((9800 * Sin(pre.pendulum.angle)) \div pre.pendulum.length))
                     * delta) \div 1000
           /\ pendulum.angle
                = pre.pendulum.angle + (pendulum.angularVelocity * delta) \div 1000

\* An active pendulum released from rest off the vertical: the angle moved
\* in the very update that gave it its first angularVelocity.
C30_Witness ==
  /\ lastOp = "animation"
  /\ pre.pendulum.active
  /\ pre.pendulum.angularVelocity = 0
  /\ pre.pendulum.angle = 500
  /\ pendulum.angularVelocity < 0
  /\ pendulum.angle < 500

\* The angle the physics of a frame carries a fallen domino to, before
\* any clamp.
Carried(d, dt) == d.angle + (d.angularVelocity * dt) \div 1000

\* C31: AnimationSystem.update leaves the angle and angularVelocity of a
\* domino that is not fallen alone; a domino it clamps ends at -pi/2 if it
\* is the last of the row and at a strictly shallower angle otherwise; a
\* row of one domino clamps that domino at -pi/2.
C31_TargetsByIndex ==
  lastOp = "animation" =>
    /\ \A i \in DOMAIN dominos :
         /\ ~pre.dominos[i].fallen =>
              /\ dominos[i].angle = pre.dominos[i].angle
              /\ dominos[i].angularVelocity = pre.dominos[i].angularVelocity
         /\ (pre.dominos[i].fallen /\ Carried(pre.dominos[i], delta) < -1571) =>
              IF i = Len(dominos)
                THEN dominos[i].angle = -1571
                ELSE dominos[i].angle > -1571 /\ dominos[i].angle < 0
    /\ \A i \in DOMAIN dominos :
         LET alone == updateDominos(<<pre.dominos[i]>>, delta)[1]
             a == Carried(pre.dominos[i], delta)
         IN pre.dominos[i].fallen =>
              /\ a < -1571 => alone.angle = -1571 /\ alone.angularVelocity = 0
              /\ a >= -1571 => alone.angle = a

\* An update that carried the first and the last domino past -pi/2 and
\* clamped them apart, next to a domino that stands.
C31_Witness ==
  /\ lastOp = "animation"
  /\ \A i \in {1, Len(dominos)} :
       pre.dominos[i].fallen /\ Carried(pre.dominos[i], delta) < -1571
  /\ dominos[1].angle > dominos[Len(dominos)].angle
  /\ \E i \in DOMAIN dominos : ~dominos[i].fallen

\* The domino has settled: clamped at its target, at rest.
Settled(i) ==
  /\ dominos[i].fallen
  /\ dominos[i].angle = target(i, Len(dominos))
  /\ dominos[i].angularVelocity = 0

PipelineNeverStartsBall2 ==
  /\ state # "BALL2_ROLLING"
  /\ ~ball2.active
  /\ ~Queued(emit("PENDULUM_HIT_BALL2", 0, 0))

\* A felled domino keeps turning away from its target in every frame.
FelledDominoKeepsTurning ==
  \A i \in DOMAIN dominos :
    dominos[i].fallen =>
      dominos[i].angularVelocity = 1500 /\ dominos[i].angle >= 0

EmittedBefore(e) == \E k \in 1..Len(prev) : prev[k] = e

\* The store as forEach has it when it comes to the k-th event of the queue.
Before(k) ==
  forEach(IF pre.state = "IDLE" THEN startBall1(pre) ELSE pre,
          SubSeq(events, 1, k - 1))

C35_FallenIsPrefix ==
  \A i \in 1..(Len(dominos) - 1) : dominos[i + 1].fallen => dominos[i].fallen

\* The chain has felled the second domino and not yet the one after it.
C35_Witness ==
  /\ lastOp = "update"
  /\ dominos[2].fallen
  /\ ~pre.dominos[2].fallen
  /\ ~dominos[Len(dominos)].fallen

\* The DOMINO_HIT_NEXT entries of the queue.
HitNexts == {k \in 1..Len(events) : events[k].type = "DOMINO_HIT_NEXT"}

\* The dominos the latest operation felled.
Felled == {i \in DOMAIN dominos : dominos[i].fallen /\ ~pre.dominos[i].fallen}

C37_FlagsFollowState ==
  /\ ball2.active => state = "BALL2_ROLLING"
  /\ \A i \in DOMAIN dominos :
       dominos[i].fallen => state \in {"DOMINOS_FALLING", "BALL2_ROLLING"}

\* The update that started ball2 while a domino was fallen.
C37_Witness ==
  /\ lastOp = "update"
  /\ pre.state = "DOMINOS_FALLING"
  /\ ~pre.ball2.active
  /\ ball2.active
  /\ \E i \in DOMAIN dominos : dominos[i].fallen

\* C38: one update call handles its queue in order, each guard on the state
\* the events before it left: BALL1_HIT_FIRST_DOMINO followed by
\* PENDULUM_HIT_BALL2 takes the rolling ball1 through DOMINOS_FALLING to
\* BALL2_ROLLING in that call (and from IDLE the auto-start comes first),
\* while the same two events the other way round stop at DOMINOS_FALLING.
C38_SeveralTransitionsPerCall ==
  LET hit1 == emit("BALL1_HIT_FIRST_DOMINO", 0, 1)
      hit2 == emit("PENDULUM_HIT_BALL2", 0, 0)
  IN (lastOp = "update" /\ pre.state \in {"IDLE", "BALL1_ROLLING"}) =>
       /\ events = <<hit1, hit2>> =>
            state = "BALL2_ROLLING" /\ ball2.active /\ dominos[1].fallen
       /\ events = <<hit2, hit1>> =>
            state = "DOMINOS_FALLING" /\ ~ball2.active /\ dominos[1].fallen
       /\ events = <<hit1>> => state = "DOMINOS_FALLING"

\* One call that went from BALL1_ROLLING to BALL2_ROLLING.
C38_Witness ==
  /\ lastOp = "update"
  /\ pre.state = "BALL1_ROLLING"
  /\ Len(events) = 2
  /\ events[1].type = "BALL1_HIT_FIRST_DOMINO"
  /\ events[2].type = "PENDULUM_HIT_BALL2"
  /\ state = "BALL2_ROLLING"

\* The order of the modes the claim names.
ModeCycle == <<"phong", "gouraud", "blinn">>

\* The mode n places after m in that order, going round.
ModeAfter(m, n) ==
  LET k == CHOOSE j \in 1..Len(ModeCycle) : ModeCycle[j] = m
  IN ModeCycle[((k - 1 + n) % Len(ModeCycle)) + 1]

\* C39: after any presses of the shading key exactly one graph root is
\* visible, the one currentMode names, and the mode is the one that many
\* places after the initial mode in the cycle phong, gouraud, blinn, phong:
\* three presses give the initial mode again.
C39_OneRootVisibleAndCycle ==
  /\ \A m \in Modes :
       graphs[m].root.visible <=> (m = shadingState.currentMode)
  /\ shadingState.currentMode = ModeAfter(initialMode(driver), presses)
  /\ presses % Len(ModeCycle) = 0 =>
       shadingState.currentMode = initialMode(driver)

\* Three presses of the key, with frames run.
C39_Witness ==
  /\ presses = Len(ModeCycle)
  /\ frame >= 1
  /\ shadingState.currentMode = initialMode(driver)

====
